---- MODULE Spec2Model ----
\* Model of the news-dataset statistics pipeline: demo/basic_stats.py (main and
\* the functions it calls) and the word-count derivation of
\* practice/generate_basic_stats.py.
\*
\* Text is a sequence of atoms: an atom is one whitespace character or a chunk
\* of non-whitespace characters.  A cell of the table is a record [k, v]:
\*   k = "nan"   a missing value as read_csv yields it (float NaN), v = <<>>
\*   k = "none"  Python None, v = <<>>
\*   k = "str"   a string, v its atoms
\*   k = "num"   a number, v = <<n>>
\*   k = "ts"    a string holding an ISO-8601 timestamp of January 2024,
\*               v = <<day, hour, utc offset in hours>>
EXTENDS Integers, Sequences, FiniteSets, TLC

VARIABLES
    \* demo main(): one run of the pipeline
    pc, inputExists, csv, df, word_count, fs, stderr, exit, error,
    per_day, top_sources, described, summary, report,
    \* word count derivation applied to one value, both variants
    wc_text, wc_demo, wc_practice, wc_done,
    \* category ranking applied to one source column
    rk_source, rk_top, rk_done,
    \* daily counts applied to one published column
    dc_published, dc_per_day, dc_done

mainVars == <<pc, inputExists, csv, df, word_count, fs, stderr, exit, error,
              per_day, top_sources, described, summary, report>>
wcVars == <<wc_text, wc_demo, wc_practice, wc_done>>
rkVars == <<rk_source, rk_top, rk_done>>
dcVars == <<dc_published, dc_per_day, dc_done>>
vars == <<mainVars, wcVars, rkVars, dcVars>>
notMain == <<wcVars, rkVars, dcVars>>

\* ---------------------------------------------------------------- bounds
MaxLen == 6          \* atoms in a body string
MaxRows == 3         \* rows of a column given to an aggregate
MaxWide == 11        \* rows of the wide source columns (more distinct values than TopN)
MaxPipeRows == 2     \* rows of a complete table given to main()
MaxGapRows == 1      \* rows of a table with missing columns given to main()
MaxDay == 2          \* days of the month a timestamp may name
TopN == 10           \* head(10)

\* ---------------------------------------------------------------- cells
NaN == [k |-> "nan", v |-> <<>>]
None == [k |-> "none", v |-> <<>>]
Str(s) == [k |-> "str", v |-> s]
Num(n) == [k |-> "num", v |-> <<n>>]
Ts(d, h, o) == [k |-> "ts", v |-> <<d, h, o>>]

WS == {" ", "\t", "\n"}

\* pandas isna / fillna's notion of a missing value
isna(x) == x.k \in {"nan", "none"}

\* safe_word_count line 44: text is None, or a float that is not a number
is_none_or_nan(text) == text.k = "none" \/ text.k = "nan"

\* Python str(x)
str(x) ==
    CASE x.k = "str" -> x.v
      [] x.k = "num" -> <<ToString(x.v[1])>>
      [] x.k = "nan" -> <<"nan">>
      [] x.k = "none" -> <<"None">>
      [] x.k = "ts" -> <<"2024-01-", ToString(x.v[1]), "T", ToString(x.v[2]),
                         ":00", ToString(x.v[3])>>

RECURSIVE lstrip(_)
lstrip(s) ==
    IF s = <<>> THEN s
    ELSE IF Head(s) \in WS THEN lstrip(Tail(s)) ELSE s

RECURSIVE rstrip(_)
rstrip(s) ==
    IF s = <<>> THEN s
    ELSE IF s[Len(s)] \in WS THEN rstrip(SubSeq(s, 1, Len(s) - 1)) ELSE s

\* str.strip()
strip(s) == rstrip(lstrip(s))

RECURSIVE split_from(_, _, _)
split_from(s, cur, out) ==
    IF s = <<>> THEN (IF cur = <<>> THEN out ELSE Append(out, cur))
    ELSE IF Head(s) \in WS
         THEN split_from(Tail(s), <<>>, IF cur = <<>> THEN out ELSE Append(out, cur))
         ELSE split_from(Tail(s), Append(cur, Head(s)), out)

RECURSIVE split_each_from(_, _, _)
split_each_from(s, cur, out) ==
    IF s = <<>> THEN Append(out, cur)
    ELSE IF Head(s) \in WS
         THEN split_each_from(Tail(s), <<>>, Append(out, cur))
         ELSE split_each_from(Tail(s), Append(cur, Head(s)), out)

\* what str.split(" ") would give: every whitespace character separates
split_each(s) == split_each_from(s, <<>>, <<>>)

\* str.split() with no separator: the tokens between runs of whitespace
split(s) == split_from(s, <<>>, <<>>)

\* demo: safe_word_count
safe_word_count(text) ==
    IF is_none_or_nan(text) THEN 0
    ELSE LET s == strip(str(text))
         IN  IF s = <<>> THEN 0 ELSE Len(split(s))

\* practice: df[text_col].fillna("").astype(str), then .str.split().str.len()
practice_word_count(text) ==
    LET filled == IF isna(text) THEN Str(<<>>) ELSE text
        s == str(filled)
    IN  Len(split(s))

\* ------------------------------------------------------------ aggregates
SENTINEL == <<"(unknown)">>

\* Series.astype(str) of the column with its nulls dropped, as value_counts
\* would see it without the fillna
dropna_astype_str(col, value) ==
    LET kept == SelectSeq(col, LAMBDA x : ~isna(x))
    IN  [i \in DOMAIN kept |-> str(kept[i])]

\* Series.fillna(value) followed by .astype(str), cell by cell
fillna_astype_str(col, value) ==
    [i \in DOMAIN col |-> IF isna(col[i]) THEN value ELSE str(col[i])]

\* the hash-table pass of value_counts: one entry per distinct key, in the
\* order the keys are first seen
RECURSIVE hash_count(_, _)
hash_count(s, acc) ==
    IF s = <<>> THEN acc
    ELSE LET x == Head(s)
             hit == {i \in DOMAIN acc : acc[i].key = x}
         IN  IF hit = {}
             THEN hash_count(Tail(s), Append(acc, [key |-> x, count |-> 1]))
             ELSE hash_count(Tail(s),
                      [i \in DOMAIN acc |->
                          IF i \in hit THEN [acc[i] EXCEPT !.count = @ + 1]
                          ELSE acc[i]])

\* the place of e among entries already in descending order of count: in front
\* of the first entry with a smaller count, so behind the entries of equal count
RECURSIVE insert_desc(_, _)
insert_desc(e, sorted) ==
    IF sorted = <<>> THEN <<e>>
    ELSE IF e.count > Head(sorted).count
         THEN <<e>> \o sorted
         ELSE <<Head(sorted)>> \o insert_desc(e, Tail(sorted))

RECURSIVE sort_desc_from(_, _)
sort_desc_from(s, acc) ==
    IF s = <<>> THEN acc
    ELSE sort_desc_from(Tail(s), insert_desc(Head(s), acc))

\* Series.sort_values(ascending=False) as value_counts calls it: descending by
\* count, entries of equal count keep their order
sort_values_desc(s) == sort_desc_from(s, <<>>)

RECURSIVE insert_key(_, _)
insert_key(e, sorted) ==
    IF sorted = <<>> THEN <<e>>
    ELSE IF e.key < Head(sorted).key
         THEN <<e>> \o sorted
         ELSE <<Head(sorted)>> \o insert_key(e, Tail(sorted))

RECURSIVE sort_index_from(_, _)
sort_index_from(s, acc) ==
    IF s = <<>> THEN acc
    ELSE sort_index_from(Tail(s), insert_key(Head(s), acc))

\* Series.sort_index(): ascending by key
sort_index(s) == sort_index_from(s, <<>>)

\* Series.value_counts()
value_counts(s) == sort_values_desc(hash_count(s, <<>>))

\* Series.head(n)
head(s, n) == SubSeq(s, 1, IF Len(s) < n THEN Len(s) ELSE n)

RECURSIVE insert_asc(_, _)
insert_asc(e, sorted) ==
    IF sorted = <<>> THEN <<e>>
    ELSE IF e.count < Head(sorted).count
         THEN <<e>> \o sorted
         ELSE <<Head(sorted)>> \o insert_asc(e, Tail(sorted))

RECURSIVE sort_asc_from(_, _)
sort_asc_from(s, acc) ==
    IF s = <<>> THEN acc
    ELSE sort_asc_from(Tail(s), insert_asc(Head(s), acc))

\* the ranking as make_plots orders it for the bar chart (line 92): the top
\* entries re-sorted ascending by count
top_sources_ascending(source) ==
    sort_asc_from(head(value_counts(fillna_astype_str(source, SENTINEL)), TopN), <<>>)

\* write_report line 130
top_sources_of(source) ==
    head(value_counts(fillna_astype_str(source, SENTINEL)), TopN)

\* pd.to_datetime(x, errors="coerce", utc=True) for one cell: the instant, in
\* hours of January 2024 counted in UTC (hour 24 is 2024-01-01T00:00Z), or NaT
NaT == [nat |-> TRUE, hours |-> 0]

\* the same without the conversion to UTC
to_datetime_naive(x) ==
    IF x.k = "ts" THEN [nat |-> FALSE, hours |-> x.v[1] * 24 + x.v[2]] ELSE NaT

to_datetime(x) ==
    IF x.k = "ts"
    THEN [nat |-> FALSE, hours |-> x.v[1] * 24 + x.v[2] - x.v[3]]
    ELSE NaT

\* parse_published
parse_published(published) == [i \in DOMAIN published |-> to_datetime(published[i])]

\* .dt.tz_convert(None).dt.date for one parsed value: the day of January 2024
date_of(t) == t.hours \div 24

\* make_plots lines 105-106
per_day_of(published) ==
    LET dt == parse_published(published)
        notna == SelectSeq(dt, LAMBDA t : ~t.nat)
        dates == [i \in DOMAIN notna |-> date_of(notna[i])]
    IN  sort_index(value_counts(dates))

\* -------------------------------------------------- distribution summary
RECURSIVE sum_of(_)
sum_of(s) == IF s = <<>> THEN 0 ELSE Head(s) + sum_of(Tail(s))

RECURSIVE insert_num(_, _)
insert_num(x, sorted) ==
    IF sorted = <<>> THEN <<x>>
    ELSE IF x < Head(sorted) THEN <<x>> \o sorted
         ELSE <<Head(sorted)>> \o insert_num(x, Tail(sorted))

RECURSIVE sorted_from(_, _)
sorted_from(s, acc) ==
    IF s = <<>> THEN acc ELSE sorted_from(Tail(s), insert_num(Head(s), acc))

\* a describe() value: not-a-number, or the rational num / den
nan_value == [nan |-> TRUE, num |-> 0, den |-> 1]
value(num, den) == [nan |-> FALSE, num |-> num, den |-> den]

\* the p-th percentile of the ascending a, linear interpolation between the
\* two nearest ranks: a[lo] + (a[lo + 1] - a[lo]) * frac, position (n - 1) * p / 100
percentile(a, p) ==
    LET pos == (Len(a) - 1) * p
        lo == pos \div 100 + 1
        hi == IF lo < Len(a) THEN lo + 1 ELSE lo
    IN  value(a[lo] * 100 + (a[hi] - a[lo]) * (pos % 100), 100)

\* Series.describe(percentiles=[0.25, 0.5, 0.75, 0.9, 0.95]) of a numeric
\* column with at least one row
describe(wc) ==
    LET a == sorted_from(wc, <<>>)
    IN  [count |-> value(Len(wc), 1),
         mean |-> value(sum_of(wc), Len(wc)),
         min |-> value(a[1], 1),
         p25 |-> percentile(a, 25),
         p50 |-> percentile(a, 50),
         p75 |-> percentile(a, 75),
         p90 |-> percentile(a, 90),
         p95 |-> percentile(a, 95),
         max |-> value(a[Len(a)], 1)]

\* describe() of a column with no rows.  add_word_count builds the column with
\* Series.apply, which on an empty column returns an empty column of the
\* input's dtype: as an object column its summary has only count, unique, top
\* and freq; as a numeric column its summary has every key, not-a-number
\* but for the count.
describe_empty ==
    { [count |-> value(0, 1), unique |-> value(0, 1), top |-> nan_value,
       freq |-> nan_value],
      [count |-> value(0, 1), mean |-> nan_value, min |-> nan_value,
       p25 |-> nan_value, p50 |-> nan_value, p75 |-> nan_value,
       p90 |-> nan_value, p95 |-> nan_value, max |-> nan_value] }

\* int(x) of a non-negative number
int(x) == x.num \div x.den

\* round(x, 2) in hundredths, ties to the even hundredth
round2(x) ==
    LET q == (x.num * 100) \div x.den
        r == (x.num * 100) % x.den
    IN  IF 2 * r > x.den THEN q + 1
        ELSE IF 2 * r = x.den THEN q + (q % 2)
        ELSE q

no_exception == [exc |-> "", at |-> ""]
raised(exc, at) == [exc |-> exc, at |-> at]

no_summary == <<>>
no_description == [count |-> value(0, 1)]

\* write_report lines 145-154: the eight (label, value) pairs, or the exception
\* the expressions raise.  wc["min"], wc["max"] and wc["mean"] index the
\* summary (KeyError when the key is absent); the percentiles are guarded by
\* "in" / .get(), and int() of a not-a-number raises ValueError.
metrics_of(wc) ==
    LET keys == DOMAIN wc
        guarded(k) == IF k \in keys THEN wc[k] ELSE value(0, 1)
        pct == <<guarded("p25"), guarded("p50"), guarded("p75"), guarded("p90"),
                 guarded("p95")>>
    IN  IF "min" \notin keys THEN [exc |-> raised("KeyError", "write_report"), rows |-> no_summary]
        ELSE IF \E i \in DOMAIN pct : pct[i].nan
        THEN [exc |-> raised("ValueError", "write_report"), rows |-> no_summary]
        ELSE IF "max" \notin keys \/ "mean" \notin keys
        THEN [exc |-> raised("KeyError", "write_report"), rows |-> no_summary]
        ELSE [exc |-> no_exception,
              rows |-> << <<"min", IF ~wc["min"].nan THEN int(wc["min"]) ELSE 0>>,
                          <<"25%", int(pct[1])>>,
                          <<"median", int(pct[2])>>,
                          <<"75%", int(pct[3])>>,
                          <<"90%", int(pct[4])>>,
                          <<"95%", int(pct[5])>>,
                          <<"max", IF ~wc["max"].nan THEN int(wc["max"]) ELSE 0>>,
                          <<"mean", IF ~wc["mean"].nan THEN round2(wc["mean"]) ELSE 0>> >>]

\* ------------------------------------------------------------------ files
OUTDIR == "outdir"
CSV_NAME == "trump_xi_meeting_fulltext_with_wordcount.csv"
HIST_NAME == "word_count_hist.png"
SOURCES_NAME == "top_sources_bar.png"
PER_DAY_NAME == "articles_per_day.png"
REPORT_NAME == "basic_stats_report.md"

\* ----------------------------------------------------------------- report
\* the atom of markdown's code quote (a backquote)
CODE_QUOTE == "backquote"

\* the three image references write_report emits (lines 159, 168, 172)
hist_ref(name) == <<"![Word count histogram](", name, ")">>
sources_ref(name) == <<"![Top sources bar chart](", name, ")">>
per_day_ref(name) == <<"![Articles per day](", name, ")">>

\* the mean is kept in hundredths and printed with its decimal point
number_text(label, v) ==
    IF label = "mean" THEN <<ToString(v \div 100), ".", ToString(v % 100)>>
    ELSE <<ToString(v)>>

metric_lines(rows) ==
    [i \in DOMAIN rows |-> <<"| ", rows[i][1], " | ">> \o number_text(rows[i][1], rows[i][2]) \o <<" |">>]

source_lines(top) ==
    [i \in DOMAIN top |-> <<"| ">> \o top[i].key \o <<" | ", ToString(top[i].count), " |">>]

\* write_report lines 135-173
report_lines(n_articles, rows, top, plots, csv_name) ==
    << <<"# Basic Stats Report", "\n">>,
       <<>>,
       <<"- Total articles: ", ToString(n_articles)>>,
       <<"- Output CSV with word counts: ", CODE_QUOTE, csv_name, CODE_QUOTE>>,
       <<>>,
       <<"## Word count summary">>,
       <<>>,
       <<"| metric | value |">>,
       <<"|---|---:|">> >>
    \o metric_lines(rows)
    \o << <<>>,
          <<"### Histogram of word counts">>,
          <<>>,
          hist_ref(plots[1]),
          <<>>,
          <<"## Top sources">>,
          <<>>,
          <<"| source | articles |">>,
          <<"|---|---:|">> >>
    \o source_lines(top)
    \o << <<>>,
          sources_ref(plots[2]),
          <<>>,
          <<"## Articles per day">>,
          <<>>,
          per_day_ref(plots[3]),
          <<>> >>

\* "\n".join(lines)
RECURSIVE join(_)
join(lines) ==
    IF lines = <<>> THEN <<>>
    ELSE IF Len(lines) = 1 THEN lines[1]
    ELSE lines[1] \o <<"\n">> \o join(Tail(lines))

\* the places where ref occurs in text
occurrences(ref, text) ==
    {i \in 1..(Len(text) - Len(ref) + 1) : SubSeq(text, i, i + Len(ref) - 1) = ref}

\* ------------------------------------------------------------------ table
\* load_data line 57
expected_cols == {"title", "authors", "source", "url", "published", "language",
                  "sentiment", "body"}

\* the expected column names in the order sorted() gives
sorted_cols == <<"authors", "body", "language", "published", "sentiment", "source",
                 "title", "url">>

\* sorted(missing)
sorted(missing) == SelectSeq(sorted_cols, LAMBDA c : c \in missing)

\* a table: its column names, its number of rows, and the cells of the three
\* columns the pipeline reads (<<>> for a column the table does not have)
table(columns, n, body, source, published) ==
    [columns |-> columns, n |-> n, body |-> body, source |-> source,
     published |-> published]

no_table == table({}, 0, <<>>, <<>>, <<>>)

SeqsUpTo(S, n) == UNION {[1..k -> S] : k \in 0..n}

BodyCells == {NaN, Str(<<"a", " ", "b">>)}
SourceCells == {NaN, Str(<<"A">>), Str(hist_ref(HIST_NAME))}
PublishedCells == {Str(<<"bad-date">>), Ts(1, 10, 0)}

column_values(columns, name, cells, n) ==
    IF name \in columns THEN [1..n -> cells] ELSE {<<>>}

\* the input file holds a table with every expected column and up to
\* MaxPipeRows rows, or one with some columns missing and up to MaxGapRows rows
IsInputTable(tb) ==
    \E missing \in SUBSET expected_cols :
        \E n \in 0..(IF missing = {} THEN MaxPipeRows ELSE MaxGapRows) :
            \E b \in column_values(expected_cols \ missing, "body", BodyCells, n),
               s \in column_values(expected_cols \ missing, "source", SourceCells, n),
               p \in column_values(expected_cols \ missing, "published", PublishedCells, n) :
                tb = table(expected_cols \ missing, n, b, s, p)

MainIdle ==
    /\ pc = "off" /\ inputExists = FALSE /\ csv = no_table /\ df = no_table
    /\ word_count = <<>> /\ fs = {} /\ stderr = <<>> /\ exit = <<>>
    /\ error = no_exception /\ per_day = <<>> /\ top_sources = <<>>
    /\ described = no_description /\ summary = no_summary /\ report = <<>>

WcIdle == wc_text = NaN /\ wc_demo = 0 /\ wc_practice = 0 /\ wc_done = {}
RkIdle == rk_source = <<>> /\ rk_top = <<>> /\ rk_done = FALSE
DcIdle == dc_published = <<>> /\ dc_per_day = <<>> /\ dc_done = FALSE

\* --------------------------------------------------------- demo main()
Init ==
    /\ pc = "main"
    /\ fs \in {{}, {OUTDIR}}
    /\ \/ inputExists = FALSE /\ csv = no_table
       \/ inputExists = TRUE /\ IsInputTable(csv)
    /\ df = no_table /\ word_count = <<>> /\ stderr = <<>> /\ exit = <<>>
    /\ error = no_exception /\ per_day = <<>> /\ top_sources = <<>>
    /\ described = no_description /\ summary = no_summary /\ report = <<>>
    /\ WcIdle /\ RkIdle /\ DcIdle

\* an uncaught exception ends the interpreter with status 1
Abort(exc, at) ==
    /\ pc' = "aborted"
    /\ error' = raised(exc, at)
    /\ exit' = <<1>>

\* line 183: outdir.mkdir(parents=True, exist_ok=True)
Mkdir ==
    /\ pc = "main"
    /\ fs' = fs \cup {OUTDIR}
    /\ pc' = "check"
    /\ UNCHANGED <<notMain, described, inputExists, csv, df, word_count, stderr, exit, error, per_day,
                   top_sources, summary, report>>

\* lines 185-187
InputNotFound ==
    /\ pc = "check"
    /\ ~inputExists
    /\ stderr' = Append(stderr, <<"Input file not found: ", "input">>)
    /\ exit' = <<2>>
    /\ pc' = "done"
    /\ UNCHANGED <<notMain, described, inputExists, csv, df, word_count, fs, error, per_day, top_sources,
                   summary, report>>

\* line 189, load_data lines 53-61
LoadData ==
    /\ pc = "check"
    /\ inputExists
    /\ df' = csv
    /\ LET missing == expected_cols \ csv.columns
       IN  stderr' = IF missing # {}
                     THEN Append(stderr, <<"Warning: missing expected columns: ">>
                                         \o sorted(missing))
                     ELSE stderr
    /\ pc' = "add_word_count"
    /\ UNCHANGED <<notMain, described, inputExists, csv, word_count, fs, exit, error, per_day,
                   top_sources, summary, report>>

\* add_word_count counting len(text.split()) without the null check: a NaN
\* body is a float and has no split
AddWordCount_unguarded ==
    /\ pc = "add_word_count"
    /\ IF "body" \notin df.columns
       THEN Abort("KeyError", "add_word_count") /\ UNCHANGED word_count
       ELSE IF \E i \in 1..df.n : isna(df.body[i])
       THEN Abort("AttributeError", "add_word_count") /\ UNCHANGED word_count
       ELSE /\ word_count' = [i \in 1..df.n |-> Len(split(str(df.body[i])))]
            /\ pc' = "to_csv"
            /\ UNCHANGED <<exit, error>>
    /\ UNCHANGED <<notMain, described, inputExists, csv, df, fs, stderr, per_day,
                   top_sources, summary, report>>

\* line 190, add_word_count lines 64-67: df["body"] raises KeyError when the
\* table has no body column
AddWordCount ==
    /\ pc = "add_word_count"
    /\ IF "body" \notin df.columns
       THEN Abort("KeyError", "add_word_count") /\ UNCHANGED word_count
       ELSE /\ word_count' = [i \in 1..df.n |-> safe_word_count(df.body[i])]
            /\ pc' = "to_csv"
            /\ UNCHANGED <<exit, error>>
    /\ UNCHANGED <<notMain, described, inputExists, csv, df, fs, stderr, per_day, top_sources, summary,
                   report>>

\* main without the to_csv call
ToCsv_unwritten ==
    /\ pc = "to_csv"
    /\ pc' = "hist"
    /\ UNCHANGED <<notMain, described, inputExists, csv, df, word_count, fs, stderr,
                   exit, error, per_day, top_sources, summary, report>>

\* lines 193-194
ToCsv ==
    /\ pc = "to_csv"
    /\ fs' = fs \cup {CSV_NAME}
    /\ pc' = "hist"
    /\ UNCHANGED <<notMain, described, inputExists, csv, df, word_count, stderr, exit, error, per_day,
                   top_sources, summary, report>>

\* line 197, make_plots lines 76-88
SaveHist ==
    /\ pc = "hist"
    /\ fs' = fs \cup {OUTDIR, HIST_NAME}
    /\ pc' = "sources"
    /\ UNCHANGED <<notMain, described, inputExists, csv, df, word_count, stderr, exit, error, per_day,
                   top_sources, summary, report>>

\* make_plots lines 90-102: df["source"] raises KeyError when the table has no
\* source column
SaveSources ==
    /\ pc = "sources"
    /\ IF "source" \notin df.columns
       THEN Abort("KeyError", "make_plots") /\ UNCHANGED fs
       ELSE /\ fs' = fs \cup {SOURCES_NAME}
            /\ pc' = "per_day"
            /\ UNCHANGED <<exit, error>>
    /\ UNCHANGED <<notMain, described, inputExists, csv, df, word_count, stderr, per_day, top_sources,
                   summary, report>>

\* make_plots lines 104-117; parse_published reads df.get("published", empty)
SavePerDay ==
    /\ pc = "per_day"
    /\ per_day' = per_day_of(IF "published" \in df.columns THEN df.published ELSE <<>>)
    /\ fs' = fs \cup {PER_DAY_NAME}
    /\ pc' = "report"
    /\ UNCHANGED <<notMain, described, inputExists, csv, df, word_count, stderr, exit, error,
                   top_sources, summary, report>>

\* line 200, write_report lines 128-130: the summary and the ranking
Describe ==
    /\ pc = "report"
    /\ IF Len(word_count) = 0
       THEN described' \in describe_empty
       ELSE described' = describe(word_count)
    /\ top_sources' = top_sources_of(df.source)
    /\ pc' = "compose"
    /\ UNCHANGED <<notMain, inputExists, csv, df, word_count, fs, stderr, exit, error,
                   per_day, summary, report>>

\* write_report lines 132-176: the lines of the report, written to its file
WriteReport ==
    /\ pc = "compose"
    /\ LET m == metrics_of(described)
       IN  IF m.exc # no_exception
           THEN /\ Abort(m.exc.exc, m.exc.at)
                /\ UNCHANGED <<summary, report, fs>>
           ELSE /\ summary' = m.rows
                /\ report' = report_lines(df.n, m.rows, top_sources,
                                 <<HIST_NAME, SOURCES_NAME, PER_DAY_NAME>>, CSV_NAME)
                /\ fs' = fs \cup {REPORT_NAME}
                /\ pc' = "finish"
                /\ UNCHANGED <<exit, error>>
    /\ UNCHANGED <<notMain, inputExists, csv, df, word_count, stderr, per_day,
                   top_sources, described>>

\* lines 202-209
Finish ==
    /\ pc = "finish"
    /\ exit' = <<0>>
    /\ pc' = "done"
    /\ UNCHANGED <<notMain, described, inputExists, csv, df, word_count, fs, stderr, error, per_day,
                   top_sources, summary, report>>

Next ==
    \/ Mkdir
    \/ InputNotFound
    \/ LoadData
    \/ AddWordCount
    \/ ToCsv
    \/ SaveHist
    \/ SaveSources
    \/ SavePerDay
    \/ Describe
    \/ WriteReport
    \/ Finish

Spec == Init /\ [][Next]_vars

\* the program is one thread that runs each statement after the last
FairSpec == Spec /\ WF_vars(Next)

\* ------------------------------------- the word count of one body value
BodyAtoms == {"a", "b", " ", "\t"}

BodyValues ==
    {NaN, None, Num(0), Num(12)} \cup {Str(s) : s \in SeqsUpTo(BodyAtoms, MaxLen)}

InitWc ==
    /\ wc_text \in BodyValues
    /\ wc_demo = 0 /\ wc_practice = 0 /\ wc_done = {}
    /\ MainIdle /\ RkIdle /\ DcIdle

\* demo: add_word_count applies safe_word_count to the value
DemoCount ==
    /\ "demo" \notin wc_done
    /\ wc_demo' = safe_word_count(wc_text)
    /\ wc_done' = wc_done \cup {"demo"}
    /\ UNCHANGED <<wc_text, wc_practice, mainVars, rkVars, dcVars>>

\* practice: main lines 50-51 on the value
PracticeCount ==
    /\ "practice" \notin wc_done
    /\ wc_practice' = practice_word_count(wc_text)
    /\ wc_done' = wc_done \cup {"practice"}
    /\ UNCHANGED <<wc_text, wc_demo, mainVars, rkVars, dcVars>>

WcNext == DemoCount \/ PracticeCount

WcSpec == InitWc /\ [][WcNext]_vars

\* ------------------------------------ the ranking of one source column
RankCells == {NaN, Str(<<"A">>), Str(<<"B">>), Str(SENTINEL)}

\* a column of MaxWide rows cycling through m names in steps of k; with gap,
\* its first cell is missing
wide_column(m, k, gap) ==
    [i \in 1..MaxWide |->
        IF gap /\ i = 1 THEN NaN ELSE Str(<<"S", ToString((i * k) % m)>>)]

SourceColumns ==
    SeqsUpTo(RankCells, MaxRows)
    \cup {wide_column(m, k, gap) : m \in 1..MaxWide, k \in 1..MaxWide, gap \in BOOLEAN}

InitRk ==
    /\ rk_source \in SourceColumns
    /\ rk_top = <<>> /\ rk_done = FALSE
    /\ MainIdle /\ WcIdle /\ DcIdle

\* write_report line 130
RankSources ==
    /\ ~rk_done
    /\ rk_top' = top_sources_of(rk_source)
    /\ rk_done' = TRUE
    /\ UNCHANGED <<rk_source, mainVars, wcVars, dcVars>>

RkNext == RankSources

RankSpec == InitRk /\ [][RkNext]_vars

\* ------------------------------- the daily counts of one published column
DayCells ==
    {NaN, Str(<<"bad-date">>)}
    \cup {Ts(d, h, o) : d \in 1..MaxDay, h \in {10, 23}, o \in {0 - 5, 0}}

InitDc ==
    /\ dc_published \in SeqsUpTo(DayCells, MaxRows)
    /\ dc_per_day = <<>> /\ dc_done = FALSE
    /\ MainIdle /\ WcIdle /\ RkIdle

\* make_plots lines 105-106
CountPerDay ==
    /\ ~dc_done
    /\ dc_per_day' = per_day_of(dc_published)
    /\ dc_done' = TRUE
    /\ UNCHANGED <<dc_published, mainVars, wcVars, rkVars>>

DcNext == CountPerDay

DaySpec == InitDc /\ [][DcNext]_vars

\* ============================================================ properties
all_outputs == {CSV_NAME, HIST_NAME, SOURCES_NAME, PER_DAY_NAME, REPORT_NAME}

\* the number of whitespace-delimited tokens of s: the places where a token starts
word_tokens(s) ==
    Cardinality({i \in 1..Len(s) : s[i] \notin WS /\ (i = 1 \/ s[i - 1] \in WS)})

expected_word_count(x) == IF isna(x) THEN 0 ELSE word_tokens(str(x))

\* C1: when the input path does not exist, main() reports the error on the
\* error stream, returns status 2, and no step of the run creates or writes
\* anything on the filesystem.
C1_InputNotFound ==
    /\ [][~inputExists => fs' = fs]_vars
    /\ [](~inputExists /\ pc = "done" =>
            exit = <<2>> /\ stderr = << <<"Input file not found: ", "input">> >>)

\* C2: whatever expected columns the input table lacks, the run emits one
\* warning listing the missing names sorted, does not abort, and ends with
\* status 0 having treated each absent column as entirely null.
C2_MissingColumns ==
    (inputExists /\ csv.columns # expected_cols) =>
        /\ pc # "aborted"
        /\ error = no_exception
        /\ pc \notin {"main", "check"} =>
               stderr = << <<"Warning: missing expected columns: ">>
                           \o sorted(expected_cols \ csv.columns) >>
        /\ pc = "done" =>
               /\ exit = <<0>>
               /\ all_outputs \subseteq fs
               /\ "body" \notin csv.columns =>
                      word_count = [i \in 1..csv.n |-> 0]
               /\ "source" \notin csv.columns =>
                      top_sources = IF csv.n = 0 THEN <<>>
                                    ELSE <<[key |-> SENTINEL, count |-> csv.n]>>
               /\ "published" \notin csv.columns => per_day = <<>>

\* the source column with the sentinel in place of each null
substituted(source) ==
    [i \in DOMAIN source |-> IF isna(source[i]) THEN SENTINEL ELSE source[i].v]

CompleteInput == inputExists /\ csv.columns = expected_cols /\ csv.n >= 1

parses(x) == x.k = "ts"

C3_Completed ==
    /\ pc = "done" /\ exit = <<0>> /\ error = no_exception
    /\ all_outputs \subseteq fs
    /\ Len(word_count) = csv.n
    /\ \A i \in 1..csv.n : word_count[i] = expected_word_count(csv.body[i])
    /\ sum_of([i \in DOMAIN per_day |-> per_day[i].count])
           = Cardinality({i \in 1..csv.n : parses(csv.published[i])})
    /\ Cardinality({substituted(csv.source)[i] : i \in 1..csv.n}) <= TopN =>
           /\ sum_of([i \in DOMAIN top_sources |-> top_sources[i].count]) = csv.n
           /\ (\E i \in 1..csv.n : isna(csv.source[i])) =>
                  \E j \in DOMAIN top_sources :
                      /\ top_sources[j].key = SENTINEL
                      /\ top_sources[j].count
                             = Cardinality({i \in 1..csv.n : substituted(csv.source)[i] = SENTINEL})

\* C3: with every expected column there and at least one row, whatever the
\* cells hold, the run never aborts and eventually completes with status 0,
\* all five outputs written, each malformed cell resolved by its default and
\* every other row counted as it stands.
C3_NeverAborts ==
    /\ [](CompleteInput => pc # "aborted")
    /\ (CompleteInput /\ pc = "main") ~> (CompleteInput /\ C3_Completed)

C3_Witness ==
    /\ CompleteInput /\ C3_Completed
    /\ csv.n = 2
    /\ isna(csv.body[1]) /\ isna(csv.source[1]) /\ ~parses(csv.published[1])
    /\ word_count = <<0, 2>>
    /\ per_day = <<[key |-> 1, count |-> 1]>>

zero_summary ==
    << <<"min", 0>>, <<"25%", 0>>, <<"median", 0>>, <<"75%", 0>>, <<"90%", 0>>,
       <<"95%", 0>>, <<"max", 0>>, <<"mean", 0>> >>

\* C4: on a table of zero rows, computing the distribution summary and
\* rendering it in write_report does not fail and reports all eight metrics
\* as zero.
C4_EmptyTable ==
    (inputExists /\ csv.columns = expected_cols /\ csv.n = 0
        /\ pc \in {"finish", "done", "aborted"}) =>
        /\ error = no_exception
        /\ summary = zero_summary

\* C5: the word count of a body value is 0 when the value is null or its text
\* is all whitespace, and otherwise the number of whitespace-delimited tokens
\* of its text; demo and practice give this same value.
C5_WordCount ==
    LET all_blank == \A i \in 1..Len(str(wc_text)) : str(wc_text)[i] \in WS
        expected == IF isna(wc_text) \/ all_blank THEN 0
                    ELSE word_tokens(str(wc_text))
    IN  /\ "demo" \in wc_done => wc_demo = expected
        /\ "practice" \in wc_done => wc_practice = expected
        /\ wc_done = {"demo", "practice"} => wc_demo = wc_practice
        /\ wc_demo >= 0 /\ wc_practice >= 0

C5_Witness ==
    /\ wc_done = {"demo", "practice"}
    /\ wc_text = Str(<<"a", " ", "b", " ", "\t", "a">>)
    /\ wc_demo = 3 /\ wc_practice = 3

occurs(s, key) == Cardinality({i \in DOMAIN s : s[i] = key})
first_seen(s, key) == CHOOSE i \in DOMAIN s : s[i] = key /\ \A j \in 1..(i - 1) : s[j] # key
ranks_before(s, a, b) ==
    \/ occurs(s, a) > occurs(s, b)
    \/ occurs(s, a) = occurs(s, b) /\ first_seen(s, a) < first_seen(s, b)

rk_total == sum_of([i \in DOMAIN rk_top |-> rk_top[i].count])
rk_distinct == Cardinality({substituted(rk_source)[i] : i \in DOMAIN rk_source})
rk_has_null == \E i \in DOMAIN rk_source : isna(rk_source[i])

\* C7 as stated: the counts of the ranking sum to at most the number of rows,
\* and to exactly the number of rows whenever no source value is null.
C7_SumOriginal ==
    rk_done =>
        /\ rk_total <= Len(rk_source)
        /\ ~rk_has_null => rk_total = Len(rk_source)

\* C7 amended: the counts of the ranking sum to at most the number of rows,
\* and to exactly the number of rows whenever the column holds at most TopN
\* distinct values after null substitution (nulls are counted, not dropped).
C7_Sum ==
    rk_done =>
        /\ rk_total <= Len(rk_source)
        /\ rk_distinct <= TopN => rk_total = Len(rk_source)

C7_Witness ==
    /\ rk_done /\ rk_has_null
    /\ Len(rk_source) = MaxRows
    /\ rk_total = Len(rk_source)

\* the calendar date, in UTC, of the instant a timestamp cell names
utc_date(x) ==
    LET hour == x.v[2] - x.v[3]
    IN  IF hour < 0 THEN x.v[1] - 1
        ELSE IF hour >= 24 THEN x.v[1] + 1
        ELSE x.v[1]

dc_total == sum_of([i \in DOMAIN dc_per_day |-> dc_per_day[i].count])

\* C8: the daily counts map each calendar date to the number of rows whose
\* published parses to that date; rows that do not parse are left out without
\* an error; keys ascend and the counts sum to at most the number of rows.
C8_DailyCounts ==
    dc_done =>
        LET r == dc_per_day
            good == {i \in DOMAIN dc_published : parses(dc_published[i])}
        IN  /\ \A i, j \in DOMAIN r : i < j => r[i].key < r[j].key
            /\ \A i \in DOMAIN r :
                   /\ r[i].count > 0
                   /\ r[i].count = Cardinality({g \in good : utc_date(dc_published[g]) = r[i].key})
            /\ \A g \in good : \E i \in DOMAIN r : r[i].key = utc_date(dc_published[g])
            /\ dc_total = Cardinality(good)
            /\ dc_total <= Len(dc_published)

C8_Witness ==
    /\ dc_done
    /\ dc_published = <<Ts(1, 23, 0 - 5), Str(<<"bad-date">>), Ts(1, 10, 0)>>
    /\ dc_per_day = <<[key |-> 1, count |-> 1], [key |-> 2, count |-> 1]>>

\* C9: the report text holds exactly one occurrence of each of the three chart
\* references, in the order histogram, sources bar chart, per-day chart.
C9_ChartReferences ==
    REPORT_NAME \in fs =>
        LET text == join(report)
            h == occurrences(hist_ref(HIST_NAME), text)
            s == occurrences(sources_ref(SOURCES_NAME), text)
            d == occurrences(per_day_ref(PER_DAY_NAME), text)
        IN  /\ Cardinality(h) = 1 /\ Cardinality(s) = 1 /\ Cardinality(d) = 1
            /\ \A i \in h : \A j \in s : \A k \in d : i < j /\ j < k

\* C10: outputs appear in the order CSV, histogram, sources chart, per-day
\* chart, report: in every state, aborted ones included, each output that
\* exists has all the earlier ones beside it.
C10_OutputOrder ==
    /\ REPORT_NAME \in fs => {CSV_NAME, HIST_NAME, SOURCES_NAME, PER_DAY_NAME} \subseteq fs
    /\ PER_DAY_NAME \in fs => SOURCES_NAME \in fs
    /\ SOURCES_NAME \in fs => HIST_NAME \in fs
    /\ HIST_NAME \in fs => CSV_NAME \in fs

C10_Witness ==
    /\ REPORT_NAME \in fs
    /\ pc = "done" /\ exit = <<0>>

====
